---- MODULE Spec2Model ----
(***************************************************************************)
(* A model of the human_analyzer_ai classification core:                   *)
(*   gesture_recognizer.py  GestureRecognizer                              *)
(*   emotion_detector.py    EmotionDetector                                *)
(*   main.py                HumanAnalysisSystem.process_frame, run, cleanup*)
(*   video_processor.py     VideoProcessor                                 *)
(*                                                                         *)
(* Python floats are modelled as exact rationals [n, d] in lowest terms.   *)
(* Landmark coordinates are the integers body_detector.py produces         *)
(* (int(lm.x * w), int(lm.y * h)).  A Python dict is a record, a list a    *)
(* sequence (Python index i is TLA+ index i + 1), None is PyNone, and a    *)
(* raised exception is the record [exception |-> <type name>].             *)
(***************************************************************************)
EXTENDS Integers, Sequences, FiniteSets, TLC

VARIABLES
    hand_data,        \* argument of GestureRecognizer.recognize_gesture
    gesture_result,   \* what that call returned (or raised)
    face_mesh,        \* argument of EmotionDetector._detect_emotion_enhanced
    emotion_result,   \* what that call returned
    emotion_history,  \* EmotionDetector.emotion_history, deque(maxlen=10)
    frame,            \* the detector outputs of the frame last processed
    emotions,         \* process_frame's returned emotions list
    gestures,         \* process_frame's returned gestures list
    raw_emotion,      \* history variable: the raw result of the last detect_emotion
    smoothed,         \* history variable: what the last detect_emotion returned
    pushed,           \* history variable: every raw result appended so far
    hand_log,         \* history variable: raw gesture results per hand index
    frame_fault,      \* history variable: process_frame's except branch ran
    recording,        \* VideoProcessor.recording
    video_writer,     \* VideoProcessor.video_writer: None or a reference to a writer
    writers,          \* the cv2.VideoWriter objects created so far
    run_pc,           \* where HumanAnalysisSystem.run stands
    iterations        \* how many frames the run loop has read

video_vars == <<recording, video_writer, writers, run_pc, iterations>>

vars == <<hand_data, gesture_result, face_mesh, emotion_result, emotion_history,
          frame, emotions, gestures, raw_emotion, smoothed, pushed, hand_log,
          frame_fault, recording, video_writer, writers, run_pc, iterations>>

----------------------------------------------------------------------------
(* Python values *)

PyNone == [py |-> "None"]

Pending == [py |-> "not called"]

Raised(e) == [exception |-> e]

IsRaise(r) == "exception" \in DOMAIN r

IsPair(r) == DOMAIN r = {"label", "conf"}

\* landmarks[i] of a Python list
At(landmarks, i) == landmarks[i + 1]

----------------------------------------------------------------------------
(* Exact rational arithmetic standing for Python float arithmetic *)

Abs(a) == IF a < 0 THEN -a ELSE a

RECURSIVE GCD(_, _)
GCD(a, b) == IF b = 0 THEN a ELSE GCD(b, a % b)

Rat(n, d) ==
    LET g == GCD(Abs(n), d)
    IN  [n |-> n \div g, d |-> d \div g]

Dec(h) == Rat(h, 100)

RInt(k) == Rat(k, 1)

RAdd(a, b) == Rat(a.n * b.d + b.n * a.d, a.d * b.d)

RSub(a, b) == Rat(a.n * b.d - b.n * a.d, a.d * b.d)

RMul(a, b) == Rat(a.n * b.n, a.d * b.d)

\* a / b for b > 0
RDiv(a, b) == Rat(a.n * b.d, a.d * b.n)

RLt(a, b) == a.n * b.d < b.n * a.d

RLe(a, b) == a.n * b.d <= b.n * a.d

RMin(a, b) == IF RLt(b, a) THEN b ELSE a

RMax(a, b) == IF RLt(a, b) THEN b ELSE a

Pair(l, c) == [label |-> l, conf |-> c]

----------------------------------------------------------------------------
(* gesture_recognizer.py *)

is_thumb_extended(landmarks) ==
    At(landmarks, 4).x < At(landmarks, 3).x - 5

\* A faulty variant of _analyze_finger_states and _is_thumb_extended: the
\* comparisons admit equality.
analyze_finger_states_inclusive(landmarks) ==
    [thumb  |-> At(landmarks, 4).x <= At(landmarks, 3).x - 5,
     index  |-> At(landmarks, 8).y <= At(landmarks, 5).y - 10,
     middle |-> At(landmarks, 12).y <= At(landmarks, 9).y - 10,
     ring   |-> At(landmarks, 16).y <= At(landmarks, 13).y - 10,
     pinky  |-> At(landmarks, 20).y <= At(landmarks, 17).y - 10]

analyze_finger_states(landmarks) ==
    [thumb  |-> is_thumb_extended(landmarks),
     index  |-> At(landmarks, 8).y < At(landmarks, 5).y - 10,
     middle |-> At(landmarks, 12).y < At(landmarks, 9).y - 10,
     ring   |-> At(landmarks, 16).y < At(landmarks, 13).y - 10,
     pinky  |-> At(landmarks, 20).y < At(landmarks, 17).y - 10]

\* The square of _calculate_distance.  np.sqrt is monotone and exact on the
\* perfect squares 100, 400, 625 and 1225, so every comparison of the distance
\* with 10, 20, 25 or 35 is the comparison of its square with that square.
calculate_distance_sq(point1, point2) ==
    (point1.x - point2.x) * (point1.x - point2.x)
        + (point1.y - point2.y) * (point1.y - point2.y)

is_ok_gesture(landmarks) ==
    calculate_distance_sq(At(landmarks, 4), At(landmarks, 8)) < 25 * 25

is_pinching(landmarks) ==
    LET d2 == calculate_distance_sq(At(landmarks, 4), At(landmarks, 8))
    IN  10 * 10 < d2 /\ d2 < 35 * 35

BoolToInt(b) == IF b THEN 1 ELSE 0

\* A faulty variant of _analyze_gestures: the thumbs_down branch stands before
\* the thumbs_up branch.
analyze_gestures_thumbs_down_first(landmarks, finger_states) ==
    LET thumb  == finger_states.thumb
        index  == finger_states.index
        middle == finger_states.middle
        ring   == finger_states.ring
        pinky  == finger_states.pinky
        count_extended == BoolToInt(index) + BoolToInt(middle)
                              + BoolToInt(ring) + BoolToInt(pinky)
    IN  IF ~thumb /\ count_extended = 0 THEN Pair("fist", Dec(95))
        ELSE IF thumb /\ count_extended = 4 THEN Pair("open_hand", Dec(92))
        ELSE IF index /\ middle /\ ~ring /\ ~pinky THEN
            IF calculate_distance_sq(At(landmarks, 8), At(landmarks, 12)) > 20 * 20
            THEN Pair("victory", Dec(93))
            ELSE PyNone
        ELSE IF index /\ ~middle /\ ~ring /\ ~pinky THEN Pair("pointing", Dec(90))
        ELSE IF thumb /\ count_extended = 0 THEN
            IF At(landmarks, 4).y > At(landmarks, 0).y + 50
            THEN Pair("thumbs_down", Dec(94))
            ELSE PyNone
        ELSE IF index /\ middle /\ ring /\ ~pinky THEN Pair("three_fingers", Dec(88))
        ELSE IF ~thumb /\ count_extended = 4 THEN Pair("four_fingers", Dec(86))
        ELSE IF is_ok_gesture(landmarks) THEN Pair("ok", Dec(89))
        ELSE IF thumb /\ pinky /\ ~index /\ ~middle /\ ~ring THEN Pair("rock", Dec(87))
        ELSE IF is_pinching(landmarks) THEN Pair("pinch", Dec(85))
        ELSE Pair("unknown", Dec(30))

\* The if/elif chain; a branch whose inner `if` fails ends the chain, and the
\* function falls off its end: Python returns None.
analyze_gestures(landmarks, finger_states) ==
    LET thumb  == finger_states.thumb
        index  == finger_states.index
        middle == finger_states.middle
        ring   == finger_states.ring
        pinky  == finger_states.pinky
        count_extended == BoolToInt(index) + BoolToInt(middle)
                              + BoolToInt(ring) + BoolToInt(pinky)
    IN  IF ~thumb /\ count_extended = 0 THEN Pair("fist", Dec(95))
        ELSE IF thumb /\ count_extended = 4 THEN Pair("open_hand", Dec(92))
        ELSE IF index /\ middle /\ ~ring /\ ~pinky THEN
            IF calculate_distance_sq(At(landmarks, 8), At(landmarks, 12)) > 20 * 20
            THEN Pair("victory", Dec(93))
            ELSE PyNone
        ELSE IF index /\ ~middle /\ ~ring /\ ~pinky THEN Pair("pointing", Dec(90))
        ELSE IF thumb /\ count_extended = 0 THEN Pair("thumbs_up", Dec(94))
        ELSE IF thumb /\ count_extended = 0 THEN
            IF At(landmarks, 4).y > At(landmarks, 0).y + 50
            THEN Pair("thumbs_down", Dec(94))
            ELSE PyNone
        ELSE IF index /\ middle /\ ring /\ ~pinky THEN Pair("three_fingers", Dec(88))
        ELSE IF ~thumb /\ count_extended = 4 THEN Pair("four_fingers", Dec(86))
        ELSE IF is_ok_gesture(landmarks) THEN Pair("ok", Dec(89))
        ELSE IF thumb /\ pinky /\ ~index /\ ~middle /\ ~ring THEN Pair("rock", Dec(87))
        ELSE IF is_pinching(landmarks) THEN Pair("pinch", Dec(85))
        ELSE Pair("unknown", Dec(30))

\* A faulty variant of recognize_gesture: the length guard is off by one.
recognize_gesture_short_guard(hand) ==
    IF hand = PyNone \/ "landmarks" \notin DOMAIN hand
    THEN Pair("unknown", Dec(0))
    ELSE IF Len(hand.landmarks) < 20 THEN Pair("unknown", Dec(0))
    ELSE IF Len(hand.landmarks) < 21 THEN Raised("IndexError")
    ELSE LET r == analyze_gestures(hand.landmarks,
                                   analyze_finger_states(hand.landmarks))
         IN  IF r = PyNone THEN Raised("TypeError") ELSE r

\* `gesture, confidence = self._analyze_gestures(...)` raises TypeError when
\* _analyze_gestures returned None.
recognize_gesture(hand) ==
    IF hand = PyNone \/ "landmarks" \notin DOMAIN hand
    THEN Pair("unknown", Dec(0))
    ELSE IF Len(hand.landmarks) < 21 THEN Pair("unknown", Dec(0))
    ELSE LET r == analyze_gestures(hand.landmarks,
                                   analyze_finger_states(hand.landmarks))
         IN  IF r = PyNone THEN Raised("TypeError") ELSE r

----------------------------------------------------------------------------
(* Hand inputs: the landmark lists the hand detector can hand over *)

Pt(x, y) == [x |-> x, y |-> y]

\* A 21-point hand.  tOff is thumb tip x minus thumb IP x; iOff..pOff are tip y
\* minus MCP y of the index, middle, ring and pinky fingers; midDx is middle
\* tip x minus index tip x; thDx is thumb tip x minus index tip x (the thumb
\* tip lies level with the index tip).
MkHand(tOff, iOff, mOff, rOff, pOff, midDx, thDx) ==
    << Pt(100, 300),                     \* 0  wrist
       Pt(90, 280),                      \* 1
       Pt(80, 260),                      \* 2  thumb MCP
       Pt(100 + thDx - tOff, 240),       \* 3  thumb IP
       Pt(100 + thDx, 200 + iOff),       \* 4  thumb tip
       Pt(100, 200),                     \* 5  index MCP
       Pt(100, 190),                     \* 6
       Pt(100, 180),                     \* 7
       Pt(100, 200 + iOff),              \* 8  index tip
       Pt(100 + midDx, 200),             \* 9  middle MCP
       Pt(100 + midDx, 190),             \* 10
       Pt(100 + midDx, 180),             \* 11
       Pt(100 + midDx, 200 + mOff),      \* 12 middle tip
       Pt(150, 200),                     \* 13 ring MCP
       Pt(150, 190),                     \* 14
       Pt(150, 180),                     \* 15
       Pt(150, 200 + rOff),              \* 16 ring tip
       Pt(170, 200),                     \* 17 pinky MCP
       Pt(170, 190),                     \* 18
       Pt(170, 180),                     \* 19
       Pt(170, 200 + pOff) >>            \* 20 pinky tip

ThumbOffsets == {-6, -5, 0}

IndexOffsets == {-30, -11, -10}

MiddleOffsets == {-11, -10, 0}

OtherOffsets == {-11, -10}

MiddleGaps == {12, 20, 21}

ThumbGaps == {5, 10, 24, 25, 34, 35, 40}

Hands21 ==
    { MkHand(t, i, m, r, p, g, d) :
        t \in ThumbOffsets, i \in IndexOffsets, m \in MiddleOffsets,
        r \in OtherOffsets, p \in OtherOffsets, g \in MiddleGaps, d \in ThumbGaps }

\* How many landmarks beyond 21 a list may carry.
MaxExtraLandmarks == 1

HandLengths == {0, 20} \cup (21 .. 21 + MaxExtraLandmarks)

\* The first n landmarks of h, padded with copies of the wrist beyond 21.
Resize(h, n) == [k \in 1 .. n |-> IF k <= Len(h) THEN h[k] ELSE h[1]]

HandDict(landmarks) == [landmarks |-> landmarks, mesh |-> "hand_landmarks"]

\* The hand h turned over: the wrist lies above the fingers, so the thumb tip
\* is more than 50 below it.
TurnedHand(h) == [h EXCEPT ![1] = Pt(100, 100)]

HandInputs ==
    {PyNone, [mesh |-> "hand_landmarks"]}
        \cup { HandDict(Resize(h, n)) : h \in Hands21, n \in HandLengths }
        \cup { HandDict(TurnedHand(h)) : h \in Hands21 }

----------------------------------------------------------------------------
(* emotion_detector.py: the face features *)

\* A face landmark list is its length and the points at the indices the
\* emotion detector reads; it reads no other landmark.  A point is a dict
\* with the keys x and y.
FaceIndices == {1, 10, 13, 14, 33, 55, 61, 65, 133, 145, 152, 159, 234, 263,
                285, 291, 295, 362, 374, 386, 454}

\* landmarks[i] succeeds: i is within the list.
InRange(landmarks, idx) == \A i \in idx : i < landmarks.len

\* landmarks[i][key] succeeds for every i of idx.
HasKey(landmarks, idx, key) == \A i \in idx : key \in DOMAIN landmarks.pts[i]

Maximum(a, b) == IF a < b THEN b ELSE a

\* A faulty variant of _get_face_width: the floor of 50 is missing.
get_face_width_unfloored(landmarks) ==
    IF InRange(landmarks, {234, 454}) /\ HasKey(landmarks, {234, 454}, "x")
    THEN RInt(Abs(landmarks.pts[454].x - landmarks.pts[234].x))
    ELSE RInt(100)

get_face_width(landmarks) ==
    IF InRange(landmarks, {234, 454}) /\ HasKey(landmarks, {234, 454}, "x")
    THEN RInt(Maximum(Abs(landmarks.pts[454].x - landmarks.pts[234].x), 50))
    ELSE RInt(100)

get_face_height(landmarks) ==
    IF InRange(landmarks, {152, 10}) /\ HasKey(landmarks, {152, 10}, "y")
    THEN RInt(Maximum(Abs(landmarks.pts[152].y - landmarks.pts[10].y), 50))
    ELSE RInt(100)

get_smile_ratio(landmarks) ==
    IF InRange(landmarks, {61, 291, 13, 14})
        /\ HasKey(landmarks, {61, 291}, "x") /\ HasKey(landmarks, {13, 14}, "y")
    THEN LET mouth_width == Abs(landmarks.pts[291].x - landmarks.pts[61].x)
             face_width == get_face_width(landmarks)
             normal_mouth_ratio == Dec(40)
             current_ratio == RDiv(RInt(mouth_width), face_width)
             smile_intensity ==
                 RMax(RInt(0),
                      RDiv(RSub(current_ratio, normal_mouth_ratio),
                           RSub(Dec(60), normal_mouth_ratio)))
         IN  RMin(smile_intensity, RInt(1))
    ELSE RInt(0)

get_brow_raise(landmarks) ==
    IF InRange(landmarks, {65, 55, 295, 285, 159, 386})
        /\ HasKey(landmarks, {65, 295, 159, 386}, "y")
    THEN LET left_brow_height == Abs(landmarks.pts[65].y - landmarks.pts[159].y)
             right_brow_height == Abs(landmarks.pts[295].y - landmarks.pts[386].y)
             face_height == get_face_height(landmarks)
             brow_ratio == RDiv(RInt(left_brow_height + right_brow_height),
                                RMul(face_height, Dec(10)))
         IN  RMin(brow_ratio, RInt(1))
    ELSE RInt(0)

\* The two denominators of lines 145-146, when the reads before them succeed.
eye_widths(landmarks) ==
    << Abs(landmarks.pts[133].x - landmarks.pts[33].x),
       Abs(landmarks.pts[263].x - landmarks.pts[362].x) >>

\* A faulty variant of _get_eye_openness_enhanced: the except returns 0.0.
get_eye_openness_zero_default(landmarks) ==
    IF InRange(landmarks, {159, 145, 386, 374, 33, 133, 362, 263})
        /\ HasKey(landmarks, {159, 145, 386, 374}, "y")
        /\ HasKey(landmarks, {33, 133, 362, 263}, "x")
    THEN LET left_eye_open == Abs(landmarks.pts[159].y - landmarks.pts[145].y)
             right_eye_open == Abs(landmarks.pts[386].y - landmarks.pts[374].y)
             left_eye_width == eye_widths(landmarks)[1]
             right_eye_width == eye_widths(landmarks)[2]
         IN  IF left_eye_width = 0 \/ right_eye_width = 0
             THEN RInt(0)
             ELSE LET left_ratio == Rat(left_eye_open, left_eye_width)
                      right_ratio == Rat(right_eye_open, right_eye_width)
                      avg_ratio == RDiv(RAdd(left_ratio, right_ratio), RInt(2))
                  IN  RMin(RMul(avg_ratio, RInt(3)), RInt(1))
    ELSE RInt(0)

\* The coordinates are ints, so a zero eye width raises ZeroDivisionError,
\* which the bare except turns into 0.5.
get_eye_openness_enhanced(landmarks) ==
    IF InRange(landmarks, {159, 145, 386, 374, 33, 133, 362, 263})
        /\ HasKey(landmarks, {159, 145, 386, 374}, "y")
        /\ HasKey(landmarks, {33, 133, 362, 263}, "x")
    THEN LET left_eye_open == Abs(landmarks.pts[159].y - landmarks.pts[145].y)
             right_eye_open == Abs(landmarks.pts[386].y - landmarks.pts[374].y)
             left_eye_width == eye_widths(landmarks)[1]
             right_eye_width == eye_widths(landmarks)[2]
         IN  IF left_eye_width = 0 \/ right_eye_width = 0
             THEN Dec(50)
             ELSE LET left_ratio == Rat(left_eye_open, left_eye_width)
                      right_ratio == Rat(right_eye_open, right_eye_width)
                      avg_ratio == RDiv(RAdd(left_ratio, right_ratio), RInt(2))
                  IN  RMin(RMul(avg_ratio, RInt(3)), RInt(1))
    ELSE Dec(50)

get_mouth_openness_enhanced(landmarks) ==
    IF InRange(landmarks, {13, 14}) /\ HasKey(landmarks, {13, 14}, "y")
    THEN LET openness == Abs(landmarks.pts[13].y - landmarks.pts[14].y)
             face_height == get_face_height(landmarks)
         IN  RMin(RDiv(RInt(openness), RMul(face_height, Dec(8))), RInt(1))
    ELSE RInt(0)

get_jaw_drop_enhanced(landmarks) ==
    IF InRange(landmarks, {152, 1}) /\ HasKey(landmarks, {152, 1}, "y")
    THEN LET jaw_drop == Abs(landmarks.pts[152].y - landmarks.pts[1].y)
             face_height == get_face_height(landmarks)
         IN  RMin(RDiv(RInt(jaw_drop), RMul(face_height, Dec(50))), RInt(1))
    ELSE RInt(0)

----------------------------------------------------------------------------
(* emotion_detector.py: the classifier *)

\* A faulty variant of emotion_decision: the sad rule is tried before the angry rule.
emotion_decision_sad_first(smile_ratio, brow_raise, eye_openness, mouth_openness, jaw_drop) ==
    IF RLt(Dec(15), smile_ratio) THEN
        IF RLt(Dec(25), mouth_openness)
        THEN Pair("happy", RMin(RAdd(Dec(80), smile_ratio), Dec(95)))
        ELSE Pair("happy", RMin(RAdd(Dec(70), smile_ratio), Dec(90)))
    ELSE IF RLt(Dec(35), mouth_openness) /\ RLt(Dec(80), eye_openness)
        THEN Pair("surprise", Dec(85))
    ELSE IF RLt(Dec(30), brow_raise) /\ RLt(smile_ratio, Dec(5))
            /\ RLt(eye_openness, Dec(60))
        THEN Pair("sad", Dec(75))
    ELSE IF RLt(Dec(60), brow_raise) /\ RLt(smile_ratio, Dec(10))
        THEN Pair("angry", Dec(80))
    ELSE IF RLt(Dec(40), jaw_drop) /\ RLt(Dec(40), brow_raise)
        THEN Pair("fear", Dec(70))
    ELSE IF RLt(mouth_openness, Dec(15)) /\ RLt(Dec(40), eye_openness)
            /\ RLt(eye_openness, Dec(80))
        THEN Pair("neutral", Dec(85))
    ELSE Pair("neutral", Dec(60))

\* A faulty variant of emotion_decision: the happy confidences are not capped.
emotion_decision_uncapped(smile_ratio, brow_raise, eye_openness, mouth_openness, jaw_drop) ==
    IF RLt(Dec(15), smile_ratio) THEN
        IF RLt(Dec(25), mouth_openness)
        THEN Pair("happy", RAdd(Dec(80), smile_ratio))
        ELSE Pair("happy", RAdd(Dec(70), smile_ratio))
    ELSE IF RLt(Dec(35), mouth_openness) /\ RLt(Dec(80), eye_openness)
        THEN Pair("surprise", Dec(85))
    ELSE IF RLt(Dec(60), brow_raise) /\ RLt(smile_ratio, Dec(10))
        THEN Pair("angry", Dec(80))
    ELSE IF RLt(Dec(30), brow_raise) /\ RLt(smile_ratio, Dec(5))
            /\ RLt(eye_openness, Dec(60))
        THEN Pair("sad", Dec(75))
    ELSE IF RLt(Dec(40), jaw_drop) /\ RLt(Dec(40), brow_raise)
        THEN Pair("fear", Dec(70))
    ELSE IF RLt(mouth_openness, Dec(15)) /\ RLt(Dec(40), eye_openness)
            /\ RLt(eye_openness, Dec(80))
        THEN Pair("neutral", Dec(85))
    ELSE Pair("neutral", Dec(60))

\* The if/elif chain of _detect_emotion_enhanced, lines 42-64.
emotion_decision(smile_ratio, brow_raise, eye_openness, mouth_openness, jaw_drop) ==
    IF RLt(Dec(15), smile_ratio) THEN
        IF RLt(Dec(25), mouth_openness)
        THEN Pair("happy", RMin(RAdd(Dec(80), smile_ratio), Dec(95)))
        ELSE Pair("happy", RMin(RAdd(Dec(70), smile_ratio), Dec(90)))
    ELSE IF RLt(Dec(35), mouth_openness) /\ RLt(Dec(80), eye_openness)
        THEN Pair("surprise", Dec(85))
    ELSE IF RLt(Dec(60), brow_raise) /\ RLt(smile_ratio, Dec(10))
        THEN Pair("angry", Dec(80))
    ELSE IF RLt(Dec(30), brow_raise) /\ RLt(smile_ratio, Dec(5))
            /\ RLt(eye_openness, Dec(60))
        THEN Pair("sad", Dec(75))
    ELSE IF RLt(Dec(40), jaw_drop) /\ RLt(Dec(40), brow_raise)
        THEN Pair("fear", Dec(70))
    ELSE IF RLt(mouth_openness, Dec(15)) /\ RLt(Dec(40), eye_openness)
            /\ RLt(eye_openness, Dec(80))
        THEN Pair("neutral", Dec(85))
    ELSE Pair("neutral", Dec(60))

\* Every feature function catches its own faults, so the outer except of
\* _detect_emotion_enhanced has nothing left to catch.
detect_emotion_enhanced(mesh) ==
    LET landmarks == mesh.landmarks
    IN  emotion_decision(get_smile_ratio(landmarks),
                         get_brow_raise(landmarks),
                         get_eye_openness_enhanced(landmarks),
                         get_mouth_openness_enhanced(landmarks),
                         get_jaw_drop_enhanced(landmarks))

----------------------------------------------------------------------------
(* Face inputs: the meshes the face-mesh detector can hand over *)

\* The read landmarks of a face: fw and fh are the raw face width and height,
\* mw the mouth width, brow the sum of the two brow gaps, eo the opening of
\* each eye, ew the width of each eye, mo the lip gap, jd the chin-to-nose gap.
MkFacePts(fw, fh, mw, brow, eo, ew, mo, jd) ==
    LET yEye == 60
        yLip == 120
        bl == brow \div 2
        br == brow - bl
    IN  [i \in FaceIndices |->
            CASE i = 234 -> Pt(0, 100)
              [] i = 454 -> Pt(fw, 100)
              [] i = 10  -> Pt(100, 0)
              [] i = 152 -> Pt(100, fh)
              [] i = 1   -> Pt(100, fh - jd)
              [] i = 61  -> Pt(50, 130)
              [] i = 291 -> Pt(50 + mw, 130)
              [] i = 13  -> Pt(100, yLip)
              [] i = 14  -> Pt(100, yLip + mo)
              [] i = 159 -> Pt(60, yEye)
              [] i = 145 -> Pt(60, yEye + eo)
              [] i = 386 -> Pt(140, yEye)
              [] i = 374 -> Pt(140, yEye + eo)
              [] i = 65  -> Pt(60, yEye - bl)
              [] i = 295 -> Pt(140, yEye - br)
              [] i = 55  -> Pt(70, yEye - bl)
              [] i = 285 -> Pt(130, yEye - br)
              [] i = 33  -> Pt(45, yEye)
              [] i = 133 -> Pt(45 + ew, yEye)
              [] i = 362 -> Pt(125, yEye)
              [] i = 263 -> Pt(125 + ew, yEye)]

MkMesh(n, pts, bbox) ==
    [landmarks |-> [len |-> n, pts |-> pts], bbox |-> bbox, mesh |-> "face_landmarks"]

\* FaceMesh yields 468 landmarks, 478 with refine_landmarks=True.
MeshLengths == {468, 478}

FaceSizes == {<<200, 250>>, <<40, 250>>, <<200, 40>>}

MouthWidths == {80, 82, 84, 86, 87, 92, 130}

BrowGaps == {0, 7, 8, 10, 11, 15, 16}

EyeShapes == {<<4, 30>>, <<5, 30>>, <<6, 30>>, <<8, 30>>, <<9, 30>>, <<5, 0>>}

LipGaps == {0, 2, 3, 5, 6, 7, 8}

JawGaps == {50, 51}

DefaultBox == <<20, 10, 200, 250>>

\* The landmark i of pts without its coordinate key.
DropKey(pts, i, key) ==
    [pts EXCEPT ![i] = [k \in {"x", "y"} \ {key} |-> pts[i][k]]]

BaseFaces ==
    { MkFacePts(200, 250, mw, b, eo, 30, mo, 51) :
        mw \in {80, 130}, b \in {0, 16}, eo \in {5, 9}, mo \in {0, 8} }

\* Meshes with one landmark missing a coordinate.
BrokenFaces ==
    { MkMesh(478, DropKey(p, i, key), DefaultBox) :
        p \in BaseFaces, i \in FaceIndices, key \in {"x", "y"} }

\* Faces whose outline points coincide: the raw width or height is 0.
DegenerateFaces ==
    { MkMesh(478, MkFacePts(sz[1], sz[2], mw, b, e[1], e[2], mo, 51), DefaultBox) :
        sz \in {<<0, 250>>, <<200, 0>>, <<0, 0>>}, mw \in {80, 130}, b \in {0, 16},
        e \in {<<5, 30>>, <<5, 0>>}, mo \in {0, 8} }

FaceInputs ==
    { MkMesh(n, MkFacePts(sz[1], sz[2], mw, b, e[1], e[2], mo, jd), DefaultBox) :
        n \in MeshLengths, sz \in FaceSizes, mw \in MouthWidths, b \in BrowGaps,
        e \in EyeShapes, mo \in LipGaps, jd \in JawGaps }
        \cup BrokenFaces \cup DegenerateFaces

----------------------------------------------------------------------------
(* emotion_detector.py: fallback, history and smoothing *)

\* self.emotion_history = deque(maxlen=10)
HistoryMaxLen == 10

\* list(self.emotion_history)[-5:]
SmoothingWindow == 5

\* A face ROI is its pixel count (ndarray.size) and the mean of its gray
\* levels (np.mean(gray)).
detect_from_roi(face_roi) ==
    IF face_roi.size > 0
    THEN IF face_roi.brightness > 150
         THEN Pair("happy", Dec(70))
         ELSE Pair("neutral", Dec(60))
    ELSE Pair("neutral", Dec(50))

\* The raw classification of detect_emotion, lines 14-18.
detect_raw(face_roi, mesh) ==
    IF mesh # PyNone /\ "landmarks" \in DOMAIN mesh /\ mesh.landmarks.len >= 468
    THEN detect_emotion_enhanced(mesh)
    ELSE detect_from_roi(face_roi)

\* A faulty variant of deque_append: a plain list, which never evicts.
deque_append_unbounded(dq, item) == Append(dq, item)

\* deque.append on a deque with maxlen: a full deque drops its oldest entry.
deque_append(dq, item) ==
    IF Len(dq) >= HistoryMaxLen
    THEN Append(Tail(dq), item)
    ELSE Append(dq, item)

\* A faulty variant of recent_entries: the whole history, the [-5:] slice forgotten.
recent_entries_all(history) == history

recent_entries(history) ==
    SubSeq(history, Maximum(1, Len(history) - SmoothingWindow + 1), Len(history))

RECURSIVE RSum(_)
RSum(cs) == IF cs = <<>> THEN RInt(0) ELSE RAdd(cs[1], RSum(Tail(cs)))

\* A faulty variant of mean_confidence: the sum, the division forgotten.
mean_confidence_sum(cs) == RSum(cs)

\* np.mean of a non-empty list of confidences
mean_confidence(cs) == RDiv(RSum(cs), RInt(Len(cs)))

Count(names, e) == Cardinality({k \in 1 .. Len(names) : names[k] = e})

\* max(set(emotions), key=emotions.count) returns the first label of maximal
\* count in the iteration order of a set of strings.  That order follows the
\* strings' hashes, which Python randomises per process, so among tied labels
\* any one can be the result.
most_common_choices(names) ==
    LET labels == {names[k] : k \in 1 .. Len(names)}
    IN  {e \in labels : \A f \in labels : Count(names, f) <= Count(names, e)}

MatchingConfidences(recent, e) ==
    LET idx == {k \in 1 .. Len(recent) : recent[k].label = e}
        F[k \in 0 .. Len(recent)] ==
            IF k = 0 THEN <<>>
            ELSE IF k \in idx THEN Append(F[k - 1], recent[k].conf) ELSE F[k - 1]
    IN  F[Len(recent)]

\* The results _get_smoothed_emotion can return for a history.
get_smoothed_emotion(history) ==
    IF history = <<>>
    THEN {Pair("neutral", Dec(50))}
    ELSE LET recent == recent_entries(history)
             names == [k \in 1 .. Len(recent) |-> recent[k].label]
         IN  { Pair(most_common,
                    RMin(mean_confidence(MatchingConfidences(recent, most_common)),
                         Dec(95))) :
                 most_common \in most_common_choices(names) }

----------------------------------------------------------------------------
(* main.py: process_frame *)

\* Hands(max_num_hands=2)
MaxHands == 2

\* A faulty variant of first_face: the face detector's result is never used.
first_face_mesh_only(fr) ==
    IF fr.face_meshes # <<>>
    THEN [bbox |-> fr.face_meshes[1].bbox, mesh |-> fr.face_meshes[1]]
    ELSE PyNone

\* The face process_frame analyses: the first mesh, else the first detected
\* face (with no mesh), else none.
first_face(fr) ==
    IF fr.face_meshes # <<>>
    THEN [bbox |-> fr.face_meshes[1].bbox, mesh |-> fr.face_meshes[1]]
    ELSE IF fr.faces # <<>>
    THEN [bbox |-> fr.faces[1].bbox, mesh |-> PyNone]
    ELSE PyNone

Minimum(a, b) == IF b < a THEN b ELSE a

\* Lines 68-71 (and 95-98); shape is (rows, columns).
clamp_roi(bbox, shape) ==
    LET x == Maximum(0, bbox[1])
        y == Maximum(0, bbox[2])
    IN  [x |-> x, y |-> y,
         w |-> Minimum(bbox[3], shape[2] - x),
         h |-> Minimum(bbox[4], shape[1] - y)]

\* A faulty variant of valid_roi: an empty ROI is let through.
valid_roi_inclusive(w, h) == w >= 0 /\ h >= 0

\* `if w > 0 and h > 0`, lines 73 and 100
valid_roi(w, h) == w > 0 /\ h > 0

\* frame[y:y+h, x:x+w] of a 3-channel frame, for a clamped box
face_roi_of(fr, box) ==
    [size |-> Maximum(box.h, 0) * Maximum(box.w, 0) * 3, brightness |-> fr.brightness]

calls_detect_emotion(fr) ==
    /\ first_face(fr) # PyNone
    /\ LET box == clamp_roi(first_face(fr).bbox, fr.shape)
       IN  valid_roi(box.w, box.h)

\* Lines 113-117 for one hand: the classification, then `hand['landmarks']`,
\* which raises KeyError on a dict without that key.
hand_step(hand) ==
    LET r == recognize_gesture(hand)
    IN  IF IsRaise(r) THEN r
        ELSE IF hand # PyNone /\ "landmarks" \notin DOMAIN hand THEN Raised("KeyError")
        ELSE r

\* A faulty variant of frame_gestures: every hand is given the first hand's result.
frame_gestures_first_hand(hands) == [i \in 1 .. Len(hands) |-> hand_step(hands[1])]

\* The loop of lines 112-121 when no step raises.
frame_gestures(hands) == [i \in 1 .. Len(hands) |-> hand_step(hands[i])]

\* The hands classified before the loop ends: all, or those before the first
\* step that raises.
ClassifiedHands(hands) ==
    {i \in 1 .. Len(hands) : \A j \in 1 .. i : ~IsRaise(hand_step(hands[j]))}

ProcessFrame(fr) ==
    LET calls == calls_detect_emotion(fr)
        face == first_face(fr)
        raw == IF calls
               THEN detect_raw(face_roi_of(fr, clamp_roi(face.bbox, fr.shape)), face.mesh)
               ELSE PyNone
        history == IF calls THEN deque_append(emotion_history, raw) ELSE emotion_history
        results == frame_gestures(fr.hands_data)
        fault == \E i \in 1 .. Len(fr.hands_data) : IsRaise(hand_step(fr.hands_data[i]))
    IN  /\ emotion_history' = history
        /\ frame' = fr
        /\ raw_emotion' = raw
        /\ pushed' = IF calls THEN Append(pushed, raw) ELSE pushed
        /\ \E result \in (IF calls THEN get_smoothed_emotion(history) ELSE {PyNone}) :
              /\ smoothed' = IF calls THEN result ELSE smoothed
              /\ emotions' = IF fault \/ ~calls THEN <<>> ELSE <<result>>
        /\ gestures' = IF fault THEN <<>> ELSE results
        /\ frame_fault' = fault
        /\ hand_log' = [i \in 1 .. MaxHands |->
                           IF i \in ClassifiedHands(fr.hands_data)
                           THEN Append(hand_log[i], hand_step(fr.hands_data[i]))
                           ELSE hand_log[i]]
        /\ UNCHANGED <<hand_data, gesture_result, face_mesh, emotion_result>>

----------------------------------------------------------------------------
(* Frames: what the detectors report for one camera frame *)

\* Camera frames are 720 rows by 1280 columns.
FrameShape == <<720, 1280>>

MkFrame(brightness, face_meshes, faces, hands_data) ==
    [shape |-> FrameShape, brightness |-> brightness, face_meshes |-> face_meshes,
     faces |-> faces, hands_data |-> hands_data]

\* smile_ratio 7/40: a gentle smile, (happy, 0.875)
SmilingPts == MkFacePts(200, 250, 87, 0, 5, 30, 0, 50)

\* (neutral, 0.85)
CalmPts == MkFacePts(200, 250, 80, 0, 5, 30, 0, 50)

FaceBox == [bbox |-> <<400, 200, 200, 250>>]

SmilingFrame == MkFrame(100, <<MkMesh(478, SmilingPts, <<400, 200, 200, 250>>)>>, <<FaceBox>>, <<>>)

CalmFrame == MkFrame(200, <<MkMesh(468, CalmPts, <<-20, -10, 200, 250>>)>>, <<>>, <<>>)

\* A mesh too short for the enhanced path, on a bright face
ShortMeshFrame == MkFrame(151, <<MkMesh(400, SmilingPts, <<400, 200, 200, 250>>)>>, <<>>, <<>>)

\* No mesh; the face detector alone found a face
BrightFaceFrame == MkFrame(200, <<>>, <<FaceBox, FaceBox>>, <<>>)

DarkFaceFrame == MkFrame(150, <<>>, <<FaceBox>>, <<>>)

NoFaceFrame == MkFrame(100, <<>>, <<>>, <<>>)

\* A short mesh whose box starts at the frame's right edge: the clamped width is 0
EdgeFrame == MkFrame(100, <<MkMesh(400, SmilingPts, <<1280, 200, 0, 250>>)>>, <<FaceBox>>, <<>>)

Frames ==
    {SmilingFrame, CalmFrame, ShortMeshFrame, BrightFaceFrame, DarkFaceFrame,
     NoFaceFrame, EdgeFrame}

LongFrames == {SmilingFrame, DarkFaceFrame}

FistHand == HandDict(MkHand(0, 0, 0, -10, -10, 12, 40))

OpenHand == HandDict(MkHand(-6, -30, -11, -11, -11, 21, 40))

\* Index and middle extended, their tips 12 apart
CloseVictoryHand == HandDict(MkHand(0, -11, -11, -10, -10, 12, 40))

FrameHands == {FistHand, OpenHand, CloseVictoryHand, [mesh |-> "hand_landmarks"]}

HandLists ==
    {<<>>} \cup {<<a>> : a \in FrameHands} \cup {<<a, b>> : a \in FrameHands, b \in FrameHands}

HandFrames == {MkFrame(100, <<>>, <<>>, hs) : hs \in HandLists}

\* Scenes: frames with a face and hands together

\* smile_ratio 1 with an open mouth: (happy, 0.95)
BigSmilePts == MkFacePts(200, 250, 130, 0, 5, 30, 6, 50)

SceneBox == <<400, 200, 200, 250>>

\* One face per rule of the classifier below the happy rule
RuleFaces ==
    { MkFacePts(200, 250, 80, b, e, 30, mo, jd) :
        b \in {0, 8, 11, 16}, e \in {5, 9}, mo \in {0, 8}, jd \in {51} }

SceneFaces ==
    { [face_meshes |-> <<>>, faces |-> <<>>, brightness |-> 100],
      [face_meshes |-> <<MkMesh(478, SmilingPts, SceneBox)>>, faces |-> <<FaceBox>>,
       brightness |-> 100],
      [face_meshes |-> <<MkMesh(478, BigSmilePts, SceneBox), MkMesh(478, CalmPts, SceneBox)>>,
       faces |-> <<FaceBox, FaceBox>>, brightness |-> 100],
      [face_meshes |-> <<>>, faces |-> <<FaceBox, FaceBox>>, brightness |-> 200] }

SceneHands ==
    { <<>>, <<FistHand>>, <<OpenHand>>, <<FistHand, OpenHand>>,
      <<FistHand, CloseVictoryHand>>, <<CloseVictoryHand, FistHand>> }

\* One hand per remaining gesture label
GestureHands ==
    { HandDict(MkHand(0, -11, -11, -10, -10, 21, 40)),
      HandDict(MkHand(0, -11, 0, -10, -10, 12, 40)),
      HandDict(MkHand(-6, -10, 0, -10, -10, 12, 40)),
      HandDict(MkHand(0, -11, -11, -11, -10, 12, 40)),
      HandDict(MkHand(0, -11, -11, -11, -11, 12, 40)),
      HandDict(MkHand(0, -10, 0, -11, -10, 12, 10)),
      HandDict(MkHand(-6, -10, 0, -10, -11, 12, 40)),
      HandDict(MkHand(0, -10, 0, -11, -10, 12, 34)),
      HandDict(MkHand(0, -10, 0, -11, -10, 12, 40)) }

SceneFrames ==
    { MkFrame(f.brightness, f.face_meshes, f.faces, hs) :
        f \in SceneFaces, hs \in SceneHands }
        \cup { MkFrame(100, <<MkMesh(478, p, SceneBox)>>, <<>>, <<>>) : p \in RuleFaces }
        \cup { MkFrame(100, <<>>, <<>>, <<h>>) : h \in GestureHands }

----------------------------------------------------------------------------
(* video_processor.py and the run loop of main.py *)

\* A reference to the k-th VideoWriter object created.
WriterRef(k) == [writer |-> k]

\* The VideoProcessor fields together with the writer objects they refer to.
Recorder(rec, vw, ws) == [recording |-> rec, video_writer |-> vw, writers |-> ws]

\* cv2.VideoWriter(...) creates a new writer; whatever video_writer referred
\* to before is no longer referenced.
start_recording(s) ==
    Recorder(TRUE, WriterRef(Len(s.writers) + 1),
             Append(s.writers, [released |-> FALSE, frames |-> 0]))

stop_recording(s) ==
    Recorder(FALSE, PyNone,
             IF s.video_writer # PyNone
             THEN [s.writers EXCEPT ![s.video_writer.writer].released = TRUE]
             ELSE s.writers)

write_frame(s) ==
    IF s.recording /\ s.video_writer # PyNone
    THEN [s EXCEPT !.writers[s.video_writer.writer].frames = @ + 1]
    ELSE s

\* A faulty variant of the 'r' key branch: it starts a recording whatever the
\* state.
toggle_recording_always_start(s) == start_recording(s)

\* The 'r' key branch of run, lines 186-195.
toggle_recording(s) ==
    IF ~s.recording THEN start_recording(s) ELSE stop_recording(s)

\* The part of cleanup that concerns the recorder, lines 209-210.
cleanup_recorder(s) == IF s.recording THEN stop_recording(s) ELSE s

\* cv2.waitKey(1) & 0xFF: the keys run tells apart, and any other value.
Keys == {"q", "r", "s", "none"}

\* The frames the camera delivers to the run loop.
CameraFrames == {NoFaceFrame, DarkFaceFrame}

\* How many frames a run of SpecVideo reads.
MaxIterations == 4

SetRecorder(s) ==
    /\ recording' = s.recording
    /\ video_writer' = s.video_writer
    /\ writers' = s.writers

\* run up to its loop: initialize_camera fails and run returns, or the loop
\* is entered.
RunStart ==
    /\ run_pc = "start"
    /\ \E camera \in BOOLEAN : run_pc' = IF camera THEN "loop" ELSE "returned"
    /\ UNCHANGED <<hand_data, gesture_result, face_mesh, emotion_result,
                   emotion_history, frame, emotions, gestures, raw_emotion,
                   smoothed, pushed, hand_log, frame_fault, recording,
                   video_writer, writers, iterations>>

\* One pass of the while loop: read, process_frame, write_frame, the key.
LoopIteration ==
    /\ run_pc = "loop"
    /\ iterations < MaxIterations
    /\ \E ret \in BOOLEAN :
          IF ~ret
          THEN /\ run_pc' = "cleanup"
               /\ UNCHANGED <<hand_data, gesture_result, face_mesh, emotion_result,
                              emotion_history, frame, emotions, gestures,
                              raw_emotion, smoothed, pushed, hand_log, frame_fault,
                              recording, video_writer, writers, iterations>>
          ELSE \E fr \in CameraFrames, key \in Keys :
                  LET written == write_frame(Recorder(recording, video_writer, writers))
                  IN  /\ ProcessFrame(fr)
                      /\ SetRecorder(IF key = "r" THEN toggle_recording(written)
                                     ELSE written)
                      /\ run_pc' = IF key = "q" THEN "cleanup" ELSE "loop"
                      /\ iterations' = iterations + 1

Cleanup ==
    /\ run_pc = "cleanup"
    /\ SetRecorder(cleanup_recorder(Recorder(recording, video_writer, writers)))
    /\ run_pc' = "done"
    /\ UNCHANGED <<hand_data, gesture_result, face_mesh, emotion_result,
                   emotion_history, frame, emotions, gestures, raw_emotion,
                   smoothed, pushed, hand_log, frame_fault, iterations>>

----------------------------------------------------------------------------
(* Idle values of the variables a specification does not use *)

NoFrame == [py |-> "no frame"]

IdleGesture == hand_data = PyNone /\ gesture_result = Pending

IdleFace == face_mesh = PyNone /\ emotion_result = Pending

IdleSystem ==
    /\ emotion_history = <<>>
    /\ frame = NoFrame
    /\ emotions = <<>>
    /\ gestures = <<>>
    /\ raw_emotion = PyNone
    /\ smoothed = PyNone
    /\ pushed = <<>>
    /\ hand_log = [i \in 1 .. MaxHands |-> <<>>]
    /\ frame_fault = FALSE
    /\ recording = FALSE
    /\ video_writer = PyNone
    /\ writers = <<>>
    /\ run_pc = "start"
    /\ iterations = 0

----------------------------------------------------------------------------
(* SpecGesture: recognize_gesture applied to one hand input *)

InitGesture ==
    /\ hand_data \in HandInputs
    /\ gesture_result = Pending
    /\ IdleFace
    /\ IdleSystem

RecognizeGesture ==
    /\ gesture_result = Pending
    /\ gesture_result' = recognize_gesture(hand_data)
    /\ UNCHANGED <<hand_data, face_mesh, emotion_result, emotion_history, frame,
                   emotions, gestures, raw_emotion, smoothed, pushed, hand_log,
                   frame_fault, recording, video_writer, writers, run_pc, iterations>>

NextGesture == RecognizeGesture

SpecGesture == InitGesture /\ [][NextGesture]_vars

----------------------------------------------------------------------------
(* SpecFace: _detect_emotion_enhanced applied to one face mesh *)

InitFace ==
    /\ face_mesh \in FaceInputs
    /\ emotion_result = Pending
    /\ IdleGesture
    /\ IdleSystem

DetectEmotionEnhanced ==
    /\ emotion_result = Pending
    /\ emotion_result' = detect_emotion_enhanced(face_mesh)
    /\ UNCHANGED <<hand_data, gesture_result, face_mesh, emotion_history, frame,
                   emotions, gestures, raw_emotion, smoothed, pushed, hand_log,
                   frame_fault, recording, video_writer, writers, run_pc, iterations>>

NextFace == DetectEmotionEnhanced

SpecFace == InitFace /\ [][NextFace]_vars

----------------------------------------------------------------------------
(* Spec: process_frame on a stream of frames with faces *)

\* How many raw emotion results a run of Spec appends.
MaxPushes == 6

\* How many raw emotion results a run of SpecLong appends.
MaxLongPushes == 12

\* How many raw gesture results per hand a run of SpecHands records.
MaxHandFrames == 3

InitSystem ==
    /\ IdleGesture
    /\ IdleFace
    /\ IdleSystem

Next ==
    \E fr \in Frames :
        Len(pushed) < MaxPushes /\ ProcessFrame(fr) /\ UNCHANGED video_vars

Spec == InitSystem /\ [][Next]_vars

NextLong ==
    \E fr \in LongFrames :
        Len(pushed) < MaxLongPushes /\ ProcessFrame(fr) /\ UNCHANGED video_vars

SpecLong == InitSystem /\ [][NextLong]_vars

NextHands ==
    \E fr \in HandFrames :
        /\ \A i \in 1 .. MaxHands : Len(hand_log[i]) < MaxHandFrames
        /\ ProcessFrame(fr)
        /\ UNCHANGED video_vars

SpecHands == InitSystem /\ [][NextHands]_vars

\* How many raw emotion results and first-hand gesture results together a run
\* of SpecScene records.
MaxSceneSteps == 2

NextScene ==
    \E fr \in SceneFrames :
        /\ Len(pushed) + Len(hand_log[1]) < MaxSceneSteps
        /\ ProcessFrame(fr)
        /\ UNCHANGED video_vars

SpecScene == InitSystem /\ [][NextScene]_vars

NextVideo == RunStart \/ LoopIteration \/ Cleanup

SpecVideo == InitSystem /\ [][NextVideo]_vars

----------------------------------------------------------------------------
(* The gesture priority table of the specification, section 4.2 *)

HasLandmarks(hand) == hand # PyNone /\ "landmarks" \in DOMAIN hand

GestureTable(landmarks) ==
    LET fs == analyze_finger_states(landmarks)
        count == BoolToInt(fs.index) + BoolToInt(fs.middle)
                     + BoolToInt(fs.ring) + BoolToInt(fs.pinky)
        tipGap == calculate_distance_sq(At(landmarks, 8), At(landmarks, 12))
        thumbGap == calculate_distance_sq(At(landmarks, 4), At(landmarks, 8))
    IN  << [cond |-> ~fs.thumb /\ count = 0, label |-> "fist", conf |-> Dec(95)],
           [cond |-> fs.thumb /\ count = 4, label |-> "open_hand", conf |-> Dec(92)],
           [cond |-> fs.index /\ fs.middle /\ ~fs.ring /\ ~fs.pinky /\ tipGap > 400,
            label |-> "victory", conf |-> Dec(93)],
           [cond |-> fs.index /\ ~fs.middle /\ ~fs.ring /\ ~fs.pinky,
            label |-> "pointing", conf |-> Dec(90)],
           [cond |-> fs.index /\ fs.middle /\ fs.ring /\ ~fs.pinky,
            label |-> "three_fingers", conf |-> Dec(88)],
           [cond |-> ~fs.thumb /\ count = 4, label |-> "four_fingers", conf |-> Dec(86)],
           [cond |-> thumbGap < 625, label |-> "ok", conf |-> Dec(89)],
           [cond |-> fs.thumb /\ fs.pinky /\ ~fs.index /\ ~fs.middle /\ ~fs.ring,
            label |-> "rock", conf |-> Dec(87)],
           [cond |-> 100 < thumbGap /\ thumbGap < 1225,
            label |-> "pinch", conf |-> Dec(85)] >>

FirstMatch(rows) ==
    IF \E k \in 1 .. Len(rows) : rows[k].cond
    THEN LET k == CHOOSE j \in 1 .. Len(rows) :
                      rows[j].cond /\ \A q \in 1 .. j - 1 : ~rows[q].cond
         IN  Pair(rows[k].label, rows[k].conf)
    ELSE Pair("unknown", Dec(30))

GestureDone == gesture_result # Pending

\* C1: for every hand with exactly 21 landmarks recognize_gesture returns the
\* (label, confidence) of the first matching row of the priority table, a row
\* whose condition is false being skipped (unknown 0.30 when none matches).
C1_FirstMatchingRow ==
    (GestureDone /\ HasLandmarks(hand_data) /\ Len(hand_data.landmarks) = 21)
        => gesture_result = FirstMatch(GestureTable(hand_data.landmarks))

C3_AlwaysReturnsPair == GestureDone => IsPair(gesture_result)

----------------------------------------------------------------------------
(* The emotion rules of the specification, section 4.3 *)

EmotionTable(smile, brow, eye, mouth, jaw) ==
    << [cond |-> RLt(Dec(15), smile), label |-> "happy",
        conf |-> IF RLt(Dec(25), mouth)
                 THEN RMin(RAdd(Dec(80), smile), Dec(95))
                 ELSE RMin(RAdd(Dec(70), smile), Dec(90))],
       [cond |-> RLt(Dec(35), mouth) /\ RLt(Dec(80), eye),
        label |-> "surprise", conf |-> Dec(85)],
       [cond |-> RLt(Dec(60), brow) /\ RLt(smile, Dec(10)),
        label |-> "angry", conf |-> Dec(80)],
       [cond |-> RLt(Dec(30), brow) /\ RLt(smile, Dec(5)) /\ RLt(eye, Dec(60)),
        label |-> "sad", conf |-> Dec(75)],
       [cond |-> RLt(Dec(40), jaw) /\ RLt(Dec(40), brow),
        label |-> "fear", conf |-> Dec(70)],
       [cond |-> RLt(mouth, Dec(15)) /\ RLt(Dec(40), eye) /\ RLt(eye, Dec(80)),
        label |-> "neutral", conf |-> Dec(85)],
       [cond |-> TRUE, label |-> "neutral", conf |-> Dec(60)] >>

FaceRuleResult(landmarks) ==
    FirstMatch(EmotionTable(get_smile_ratio(landmarks),
                            get_brow_raise(landmarks),
                            get_eye_openness_enhanced(landmarks),
                            get_mouth_openness_enhanced(landmarks),
                            get_jaw_drop_enhanced(landmarks)))

EmotionDone == emotion_result # Pending

\* C4: for every face mesh with at least 468 landmarks the raw emotion is the
\* first matching of the seven ordered rules over the five features; a face
\* with smile_ratio 0.3 and mouth_openness 0.1 gives (happy, 0.90).
C4_SevenOrderedRules ==
    (EmotionDone /\ face_mesh.landmarks.len >= 468)
        => /\ emotion_result = FaceRuleResult(face_mesh.landmarks)
           /\ (get_smile_ratio(face_mesh.landmarks) = Dec(30)
                 /\ get_mouth_openness_enhanced(face_mesh.landmarks) = Dec(10))
                => emotion_result = Pair("happy", Dec(90))

C4_Witness ==
    /\ EmotionDone
    /\ face_mesh.landmarks.len >= 468
    /\ get_smile_ratio(face_mesh.landmarks) = Dec(30)
    /\ get_mouth_openness_enhanced(face_mesh.landmarks) = Dec(10)
    /\ emotion_result = Pair("happy", Dec(90))

----------------------------------------------------------------------------
(* The temporal smoother of the specification, section 4.4 *)

LastEntries(q, n) == SubSeq(q, Len(q) - n + 1, Len(q))

\* The last 5 entries of q, or all of them when there are fewer.
Window(q) == LastEntries(q, Minimum(Len(q), 5))

FirstIndex(q, e) == CHOOSE k \in 1 .. Len(q) :
                        q[k].label = e /\ \A j \in 1 .. k - 1 : q[j].label # e

Occurrences(q, e) == Cardinality({k \in 1 .. Len(q) : q[k].label = e})

\* The most frequent label of a non-empty q; among labels of equal count, the
\* one that occurs earliest in q.
EarliestMostFrequent(q) ==
    LET labels == {q[k].label : k \in 1 .. Len(q)}
        top == {e \in labels : \A f \in labels : Occurrences(q, f) <= Occurrences(q, e)}
    IN  CHOOSE e \in top : \A f \in top : FirstIndex(q, e) <= FirstIndex(q, f)

RECURSIVE SumOver(_, _)
SumOver(q, idx) ==
    IF idx = {} THEN RInt(0)
    ELSE LET k == CHOOSE j \in idx : TRUE
         IN  RAdd(q[k].conf, SumOver(q, idx \ {k}))

\* min(0.95, mean of the confidences of the entries of q labelled e)
CappedMeanOf(q, e) ==
    LET idx == {k \in 1 .. Len(q) : q[k].label = e}
    IN  RMin(Dec(95), RDiv(SumOver(q, idx), RInt(Cardinality(idx))))

Called == raw_emotion # PyNone

UnusableMesh(mesh) == mesh = PyNone \/ mesh.landmarks.len < 468

\* C5: when detect_emotion is called with no face mesh or a mesh of fewer than
\* 468 landmarks, the raw result appended to the history is (happy, 0.70) if
\* the mean luminance exceeds 150 and (neutral, 0.60) otherwise.
C5_FallbackTwoOutcomes ==
    (Called /\ UnusableMesh(first_face(frame).mesh))
        => /\ raw_emotion = IF frame.brightness > 150
                            THEN Pair("happy", Dec(70))
                            ELSE Pair("neutral", Dec(60))
           /\ emotion_history[Len(emotion_history)] = raw_emotion

C5_Witness ==
    /\ Called
    /\ first_face(frame).mesh # PyNone
    /\ first_face(frame).mesh.landmarks.len < 468
    /\ raw_emotion = Pair("happy", Dec(70))
    /\ \E k \in 1 .. Len(pushed) : pushed[k] = Pair("neutral", Dec(60))

\* C6: the emotion history never holds more than 10 entries and equals the
\* last min(n, 10) of the n entries appended, in order; after 11 appends the
\* first is gone and the 2nd to 11th remain.
C6_BoundedFifo ==
    /\ Len(emotion_history) <= 10
    /\ emotion_history = LastEntries(pushed, Minimum(Len(pushed), 10))

C6_Witness ==
    /\ Len(pushed) = 11
    /\ emotion_history = SubSeq(pushed, 2, 11)
    /\ \A k \in 1 .. Len(emotion_history) : emotion_history[k] # pushed[1]

\* C7: the smoothed label is the most frequent label of the last 5 history
\* entries, and among labels of equal count it is the one that occurs earliest
\* in that window.
C7_EarliestTiedLabel ==
    smoothed # PyNone => smoothed.label = EarliestMostFrequent(Window(emotion_history))

\* C8: the smoothed confidence is min(0.95, mean of the confidences of the
\* entries among the last 5 of the history that carry the returned label).
C8_MeanOfWinners ==
    smoothed # PyNone
        => smoothed.conf = CappedMeanOf(Window(emotion_history), smoothed.label)

C8_Witness ==
    /\ smoothed # PyNone
    /\ Len(emotion_history) > 5
    /\ LET w == Window(emotion_history)
           old == emotion_history[Len(emotion_history) - 5]
       IN  /\ \E k \in 1 .. 5 : w[k].label # smoothed.label
           /\ \E j, k \in 1 .. 5 : /\ w[j].label = smoothed.label
                                   /\ w[k].label = smoothed.label
                                   /\ w[j].conf # w[k].conf
           /\ old.label = smoothed.label
           /\ old.conf # smoothed.conf
           /\ RLt(smoothed.conf, Dec(95))

TenIdentical ==
    /\ Len(pushed) >= 10
    /\ \A k \in Len(pushed) - 9 .. Len(pushed) : pushed[k] = pushed[Len(pushed)]

\* C9: when the last 10 raw classifications were the same (L, c), whatever
\* came before, the smoothed output has label L and a confidence in
\* [0.9 c, c].
C9_TenIdenticalFrames ==
    TenIdentical
        => LET last == pushed[Len(pushed)]
           IN  /\ smoothed.label = last.label
               /\ RLe(RMul(Dec(90), last.conf), smoothed.conf)
               /\ RLe(smoothed.conf, last.conf)

C9_Witness ==
    /\ TenIdentical
    /\ Len(pushed) = 12
    /\ pushed[1] # pushed[12]
    /\ pushed[2] # pushed[12]
    /\ smoothed = pushed[12]

FrameDone == frame # NoFrame /\ ~frame_fault

----------------------------------------------------------------------------
(* The thumb gestures and the finger thresholds *)

OnlyThumb(landmarks) ==
    /\ landmarks[5].x < landmarks[4].x - 5
    /\ \A f \in {5, 9, 13, 17} : ~(landmarks[f + 4].y < landmarks[f + 1].y - 10)

ThumbBelowWrist(landmarks) == landmarks[5].y > landmarks[1].y + 50

StrictStates(landmarks) ==
    [thumb  |-> landmarks[4].x - landmarks[5].x > 5,
     index  |-> landmarks[6].y - landmarks[9].y > 10,
     middle |-> landmarks[10].y - landmarks[13].y > 10,
     ring   |-> landmarks[14].y - landmarks[17].y > 10,
     pinky  |-> landmarks[18].y - landmarks[21].y > 10]

InclusiveStates(landmarks) ==
    [thumb  |-> landmarks[4].x - landmarks[5].x >= 5,
     index  |-> landmarks[6].y - landmarks[9].y >= 10,
     middle |-> landmarks[10].y - landmarks[13].y >= 10,
     ring   |-> landmarks[14].y - landmarks[17].y >= 10,
     pinky  |-> landmarks[18].y - landmarks[21].y >= 10]

ResultOf(landmarks, states) ==
    LET r == analyze_gestures(landmarks, states)
    IN  IF r = PyNone THEN Raised("TypeError") ELSE r

Classified == GestureDone /\ HasLandmarks(hand_data) /\ Len(hand_data.landmarks) >= 21

\* Every finger lies exactly on its threshold: each non-thumb tip 10 above its
\* MCP joint, the thumb tip 5 to the side of its IP joint.
OnThresholds(landmarks) ==
    /\ landmarks[4].x - landmarks[5].x = 5
    /\ \A f \in {5, 9, 13, 17} : landmarks[f + 1].y - landmarks[f + 4].y = 10

\* C17 as stated: a non-thumb finger is extended iff tip.y <= mcp.y - 10 and
\* the thumb iff tip.x <= ip.x - 5, an offset of exactly 10 (5) counting as
\* extended.
C17_InclusiveThresholds ==
    Classified
        => /\ analyze_finger_states(hand_data.landmarks)
                  = InclusiveStates(hand_data.landmarks)
           /\ gesture_result
                  = ResultOf(hand_data.landmarks, InclusiveStates(hand_data.landmarks))

\* C17: a non-thumb finger is extended iff its tip's y is more than 10 less
\* than its MCP joint's y, and the thumb iff its tip's x is more than 5 less
\* than its IP joint's x; an offset of exactly 10 (5) is not extended, so the
\* hand with every finger exactly on its threshold is a fist.
C17_StrictThresholds ==
    Classified
        => /\ analyze_finger_states(hand_data.landmarks)
                  = StrictStates(hand_data.landmarks)
           /\ gesture_result
                  = ResultOf(hand_data.landmarks, StrictStates(hand_data.landmarks))
           /\ OnThresholds(hand_data.landmarks)
                  => gesture_result = Pair("fist", Dec(95))

C17_Witness ==
    /\ Classified
    /\ OnThresholds(hand_data.landmarks)
    /\ gesture_result = Pair("fist", Dec(95))

----------------------------------------------------------------------------
(* Faults inside the face features *)

\* Some landmark of idx lacks the coordinate key.
Missing(landmarks, idx, key) == \E i \in idx : key \notin DOMAIN landmarks.pts[i]

EyeReadFault(landmarks) ==
    \/ Missing(landmarks, {159, 145, 386, 374}, "y")
    \/ Missing(landmarks, {33, 133, 362, 263}, "x")

ZeroEyeWidth(landmarks) ==
    ~EyeReadFault(landmarks) /\ \E k \in 1 .. 2 : eye_widths(landmarks)[k] = 0

FaceWidthFault(landmarks) == Missing(landmarks, {234, 454}, "x")

FaceHeightFault(landmarks) == Missing(landmarks, {152, 10}, "y")

SmileFault(landmarks) ==
    Missing(landmarks, {61, 291}, "x") \/ Missing(landmarks, {13, 14}, "y")

BrowFault(landmarks) == Missing(landmarks, {65, 295, 159, 386}, "y")

EyeFault(landmarks) == EyeReadFault(landmarks) \/ ZeroEyeWidth(landmarks)

MouthFault(landmarks) == Missing(landmarks, {13, 14}, "y")

JawFault(landmarks) == Missing(landmarks, {152, 1}, "y")

FeatureFault(landmarks) ==
    \/ FaceWidthFault(landmarks) \/ FaceHeightFault(landmarks)
    \/ SmileFault(landmarks) \/ BrowFault(landmarks) \/ EyeFault(landmarks)
    \/ MouthFault(landmarks) \/ JawFault(landmarks)

OrDefault(fault, default, value) == IF fault THEN default ELSE value

\* The first matching rule over the features, a faulted feature standing at
\* its default.
RuleResultWithDefaults(landmarks) ==
    FirstMatch(EmotionTable(
        OrDefault(SmileFault(landmarks), RInt(0), get_smile_ratio(landmarks)),
        OrDefault(BrowFault(landmarks), RInt(0), get_brow_raise(landmarks)),
        OrDefault(EyeFault(landmarks), Dec(50), get_eye_openness_enhanced(landmarks)),
        OrDefault(MouthFault(landmarks), RInt(0), get_mouth_openness_enhanced(landmarks)),
        OrDefault(JawFault(landmarks), RInt(0), get_jaw_drop_enhanced(landmarks))))

FullMesh == EmotionDone /\ face_mesh.landmarks.len >= 468

\* C12 as stated: any fault while computing a face feature on a mesh of at
\* least 468 entries makes the raw classification (neutral, 0.5).
C12_FaultGivesNeutralHalf ==
    (FullMesh /\ FeatureFault(face_mesh.landmarks))
        => emotion_result = Pair("neutral", Dec(50))

\* C12: a fault while computing a face feature on a mesh of at least 468
\* entries puts that feature at its default (0.5 for the eye openness, 0.0 for
\* the other four, 100 for the face width and height); the raw classification
\* is the first matching rule over the resulting features and is never
\* (neutral, 0.5); the call returns a pair.
C12_FaultGivesFeatureDefault ==
    LET l == face_mesh.landmarks
    IN  (FullMesh /\ FeatureFault(l))
            => /\ IsPair(emotion_result)
               /\ emotion_result # Pair("neutral", Dec(50))
               /\ emotion_result = RuleResultWithDefaults(l)
               /\ SmileFault(l) => get_smile_ratio(l) = RInt(0)
               /\ BrowFault(l) => get_brow_raise(l) = RInt(0)
               /\ EyeFault(l) => get_eye_openness_enhanced(l) = Dec(50)
               /\ MouthFault(l) => get_mouth_openness_enhanced(l) = RInt(0)
               /\ JawFault(l) => get_jaw_drop_enhanced(l) = RInt(0)
               /\ FaceWidthFault(l) => get_face_width(l) = RInt(100)
               /\ FaceHeightFault(l) => get_face_height(l) = RInt(100)

\* A landmark of the left eye lacks its y, and the smile still decides.
C12_Witness ==
    /\ FullMesh
    /\ Missing(face_mesh.landmarks, {159}, "y")
    /\ emotion_result = Pair("happy", Dec(95))

\* C18 as stated: no feature computation executes a division whose
\* denominator is zero, coincident eye corners included.
C18_NoZeroDenominator ==
    (FullMesh /\ ~EyeReadFault(face_mesh.landmarks))
        => \A k \in 1 .. 2 : eye_widths(face_mesh.landmarks)[k] # 0

\* C18: the face width and the face height are at least 50, so no division by
\* them or their multiples has a zero denominator; the eye widths have no
\* floor, and a zero eye width ends the eye feature in its default 0.5, the
\* classification being the first matching rule with that value.
C18_FlooredFaceUnflooredEyes ==
    LET l == face_mesh.landmarks
    IN  FullMesh
            => /\ RLe(RInt(50), get_face_width(l))
               /\ RLe(RInt(50), get_face_height(l))
               /\ ZeroEyeWidth(l)
                      => /\ get_eye_openness_enhanced(l) = Dec(50)
                         /\ emotion_result = RuleResultWithDefaults(l)

\* The face is 0 wide and its eye corners coincide.
C18_Witness ==
    /\ FullMesh
    /\ ~FaceWidthFault(face_mesh.landmarks)
    /\ face_mesh.landmarks.pts[454].x = face_mesh.landmarks.pts[234].x
    /\ ZeroEyeWidth(face_mesh.landmarks)
    /\ get_face_width(face_mesh.landmarks) = RInt(50)
    /\ IsPair(emotion_result)

----------------------------------------------------------------------------
(* The emotion history across frames *)

\* The box, clamped to the frame, keeps a positive width and height.
ClampedPositive(bbox, shape) ==
    /\ Minimum(bbox[3], shape[2] - Maximum(0, bbox[1])) > 0
    /\ Minimum(bbox[4], shape[1] - Maximum(0, bbox[2])) > 0

\* The frame shows a face to classify: its first mesh, or with no mesh its
\* first detected face, has a box that stays non-empty inside the frame.
FaceToClassify(fr) ==
    IF fr.face_meshes # <<>>
    THEN ClampedPositive(fr.face_meshes[1].bbox, fr.shape)
    ELSE fr.faces # <<>> /\ ClampedPositive(fr.faces[1].bbox, fr.shape)

AppendedOnce ==
    /\ Len(pushed') = Len(pushed) + 1
    /\ emotion_history'
           = LastEntries(Append(emotion_history, raw_emotion'),
                         Minimum(Len(emotion_history) + 1, 10))
    /\ smoothed' \in get_smoothed_emotion(emotion_history')

\* C15 as stated: every process_frame call appends exactly once to the emotion
\* history, and the smoothed result is computed from the history holding that
\* entry.
C15_OneAppendEveryFrame == [][AppendedOnce]_vars

\* C15: a process_frame call appends to the emotion history exactly once when
\* the frame shows a face to classify, and not at all otherwise; after an
\* append the smoothed result is computed from the history that holds the
\* frame's entry as its last.
C15_OneAppendPerFaceFrame ==
    [][IF FaceToClassify(frame')
       THEN AppendedOnce
       ELSE /\ pushed' = pushed
            /\ emotion_history' = emotion_history
            /\ emotions' = <<>>]_vars

\* A frame with a face, then a frame with none: one append.
C15_Witness ==
    /\ frame = NoFaceFrame
    /\ Len(pushed) = 1
    /\ Len(emotion_history) = 1
    /\ emotions = <<>>

\* The last n raw results all carry the label l.
Streak(n, l) ==
    /\ Len(pushed) >= n
    /\ \A k \in Len(pushed) - n + 1 .. Len(pushed) : pushed[k].label = l

\* C19: once the raw classification has had the same label in 3 consecutive
\* detect_emotion calls, whatever the history before them, the smoothed label
\* of the third call and of every later call of the streak is that label.
C19_ThreeInARow ==
    \A l \in {"happy", "neutral"} : Streak(3, l) => smoothed.label = l

\* Two neutral results, then three happy ones.
C19_Witness ==
    /\ Len(pushed) = 5
    /\ pushed[1].label = "neutral" /\ pushed[2].label = "neutral"
    /\ Streak(3, "happy")
    /\ smoothed.label = "happy"

\* After two consecutive raw results of one label the smoothed label is
\* another one.
TwoNotEnough ==
    \E l \in {"happy", "neutral"} :
        Streak(2, l) /\ smoothed # PyNone /\ smoothed.label # l

----------------------------------------------------------------------------
(* The results of one frame *)

Processed == frame # NoFrame

Raises(hand) == IsRaise(hand_step(hand))

HandFaulted(fr) == \E i \in 1 .. Len(fr.hands_data) : Raises(fr.hands_data[i])

\* The hands of the frame whose classification does not raise, in order.
SoundHands(fr) == SelectSeq(fr.hands_data, LAMBDA h : ~Raises(h))

\* C11 as stated: when the classification of one hand raises, the emotion
\* already computed and one gesture entry per remaining hand are returned.
C11_FaultKeepsOtherResults ==
    (Processed /\ HandFaulted(frame))
        => /\ FaceToClassify(frame) => emotions = <<smoothed>>
           /\ gestures = [i \in 1 .. Len(SoundHands(frame)) |->
                             hand_step(SoundHands(frame)[i])]

\* C13 as stated: at most one emotion per frame whatever the number of faces
\* and meshes, and exactly one gesture entry per detected hand, in the
\* detector's order.
C13_OneEmotionOneGesturePerHand ==
    Processed
        => /\ Len(emotions) <= 1
           /\ Len(gestures) = Len(frame.hands_data)
           /\ \A i \in 1 .. Len(gestures) :
                 IsPair(gestures[i]) /\ gestures[i] = hand_step(frame.hands_data[i])

InUnit(c) == RLe(RInt(0), c) /\ RLe(c, RInt(1))

AllInUnit(q) == \A k \in 1 .. Len(q) : IsPair(q[k]) => InUnit(q[k].conf)

\* C14: every (label, confidence) the system produces, raw or smoothed,
\* emotion or gesture, has its confidence within [0, 1].
C14_ConfidenceInUnit ==
    /\ AllInUnit(pushed)
    /\ AllInUnit(emotion_history)
    /\ AllInUnit(emotions)
    /\ AllInUnit(gestures)
    /\ \A i \in 1 .. MaxHands : AllInUnit(hand_log[i])
    /\ AllInUnit(<<raw_emotion, smoothed>>)

\* A scene with a big smile and two hands; nine tenths and above all round.
C14_Witness ==
    /\ Processed
    /\ raw_emotion = Pair("happy", Dec(95))
    /\ Len(emotions) = 1
    /\ Len(gestures) = 2
    /\ gestures[1] = Pair("fist", Dec(95))

----------------------------------------------------------------------------
(* The recorder *)

Unreleased == {k \in 1 .. Len(writers) : ~writers[k].released}

RECURSIVE FramesWritten(_)
FramesWritten(ws) ==
    IF ws = <<>> THEN 0 ELSE Head(ws).frames + FramesWritten(Tail(ws))

\* C20: through the run loop and cleanup, recording is true exactly when
\* video_writer is set, and the writer it refers to is the only unreleased
\* one; start_recording is invoked only while not recording, with no writer
\* held; a frame is written only while recording; after cleanup recording is
\* false, video_writer is None and every writer has been released.
C20_RecordingIffWriter ==
    /\ [](recording <=> video_writer # PyNone)
    /\ [](Unreleased = IF video_writer = PyNone THEN {} ELSE {video_writer.writer})
    /\ [](run_pc = "done"
             => ~recording /\ video_writer = PyNone /\ Unreleased = {})
    /\ [][Len(writers') > Len(writers) => ~recording /\ video_writer = PyNone]_vars
    /\ [][FramesWritten(writers') # FramesWritten(writers) => recording]_vars

\* Two recordings, the first stopped by the key, the second by cleanup, with a
\* frame written to each.
C20_Witness ==
    /\ run_pc = "done"
    /\ Len(writers) = 2
    /\ writers[1].frames > 0 /\ writers[2].frames > 0
    /\ Unreleased = {}
    /\ ~recording

====
